---- MODULE Spec2Model ----
(***************************************************************************)
(* The QEMU test harness of uefi-rs: run_qemu of src/build.py (the         *)
(* "serial" variant: triggers are read from a dedicated serial pipe and    *)
(* QEMU's stdout is echoed by a thread) and run_qemu of                    *)
(* src/uefi-test-runner/build.py (the "stdout" variant: triggers are read  *)
(* from QEMU's stdout after ANSI stripping).                               *)
(*                                                                         *)
(* Text is modelled as sequences of byte values, so that strip, rstrip,    *)
(* startswith, slicing and the ANSI regular expression are computed as     *)
(* Python computes them.  Monitor (QMP) lines are modelled by their text   *)
(* and parsed by json_loads.                                               *)
(***************************************************************************)
EXTENDS Integers, Sequences, FiniteSets, TLC

\* ------------------------------------------------------------------ bounds
\* most lines QEMU writes to the monitor reply pipe in one run
MaxMon == 5
\* most lines QEMU writes to the monitored console in one run
MaxConsole == 2
\* most lines QEMU writes to its stdout in the serial variant
MaxStdout == 1
\* most unread lines a pipe holds
PipeCap == 2
\* longest line given to the ANSI stripping on its own
MaxLen == 4

\* ------------------------------------------------------------------- bytes
ESC == 27
CSI == 155
LBRACKET == 91
NL == 10
SP == 32

\* str.strip()/str.rstrip() without arguments remove Python's whitespace
IsSpace(c) == c \in (9..13) \cup (28..32) \cup {133, 160}

RECURSIVE rstrip(_)
rstrip(s) ==
    IF s = <<>> THEN <<>>
    ELSE IF IsSpace(s[Len(s)]) THEN rstrip(SubSeq(s, 1, Len(s) - 1))
    ELSE s

RECURSIVE lstrip(_)
lstrip(s) ==
    IF s = <<>> THEN <<>>
    ELSE IF IsSpace(Head(s)) THEN lstrip(Tail(s))
    ELSE s

strip(s) == lstrip(rstrip(s))

startswith(s, p) == Len(s) >= Len(p) /\ SubSeq(s, 1, Len(p)) = p

\* s[n:]
SliceFrom(s, n) == SubSeq(s, n + 1, Len(s))

\* The character classes of (\x9B|\x1B\[)[0-?]*[ -/]*[@-~]
IsParam(c) == c \in 48..63
IsIntermediate(c) == c \in 32..47
IsFinal(c) == c \in 64..126

\* length of the longest prefix of s whose bytes all satisfy the class
RECURSIVE SpanParam(_)
SpanParam(s) ==
    IF s # <<>> /\ IsParam(Head(s)) THEN 1 + SpanParam(Tail(s)) ELSE 0

RECURSIVE SpanIntermediate(_)
SpanIntermediate(s) ==
    IF s # <<>> /\ IsIntermediate(Head(s)) THEN 1 + SpanIntermediate(Tail(s)) ELSE 0

\* Length of the match of the pattern at the start of s, 0 when there is none.
\* The three classes are disjoint, so the greedy match is the only match.
AnsiMatchLen(s) ==
    LET intro == IF s # <<>> /\ Head(s) = CSI THEN 1
                 ELSE IF Len(s) >= 2 /\ s[1] = ESC /\ s[2] = LBRACKET THEN 2
                 ELSE 0
        r1 == SliceFrom(s, intro)
        np == SpanParam(r1)
        r2 == SliceFrom(r1, np)
        ni == SpanIntermediate(r2)
        r3 == SliceFrom(r2, ni)
    IN  IF intro = 0 THEN 0
        ELSE IF r3 # <<>> /\ IsFinal(Head(r3)) THEN intro + np + ni + 1
        ELSE 0

\* ansi_escape.sub('', s): one left-to-right pass over non-overlapping matches
RECURSIVE ansi_escape_sub(_)
ansi_escape_sub(s) ==
    IF s = <<>> THEN <<>>
    ELSE LET m == AnsiMatchLen(s)
         IN  IF m > 0 THEN ansi_escape_sub(SliceFrom(s, m))
             ELSE <<Head(s)>> \o ansi_escape_sub(Tail(s))

\* ----------------------------------------------------------- console text
\* "SCREENSHOT: " (12 characters)
PREFIX == <<83, 67, 82, 69, 69, 78, 83, 72, 79, 84, 58, 32>>

\* the console lines QEMU may write, as raw text ending in a newline
LineTrigger == PREFIX \o <<97, NL>>
LineTriggerLead == PREFIX \o <<SP, 97, NL>>
LineTriggerAnsi == PREFIX \o <<97, SP, ESC, LBRACKET, 109, NL>>
LineIndented == <<SP>> \o PREFIX \o <<97, NL>>
LineLog == <<108, 111, 103, NL>>
LineAnsiOnly == <<ESC, LBRACKET, 109, NL>>

ConsoleLines ==
    {LineTrigger, LineTriggerLead, LineTriggerAnsi, LineIndented, LineLog, LineAnsiOnly}

StdoutLines == {LineLog, LineAnsiOnly}

\* the reference files in uefi-test-runner/screenshots: a.ppm
FixturesOnDisk == {<<<<97>>, 1>>}

\* what QEMU may write into screenshot.ppm
Contents == {1, 2}

\* ----------------------------------------------------------- monitor text
\* A monitor line is the sequence of its JSON tokens, white space included,
\* so that the text comparisons of the handshake and the parsed comparison
\* of the reply loop differ as they do in Python.
QMP_PREFIX == <<"{", "QMP", ":">>
Banner == <<"{", "QMP", ":", " ", "{version}", "}", "\n">>
ReturnOk == <<"{", "return", ":", " ", "{}", "}", "\n">>
ReturnCompact == <<"{", "return", ":", "{}", "}", "\n">>
EventStop ==
    <<"{", "timestamp", ":", " ", "{t}", ",", " ", "event", ":", " ", "STOP", "}", "\n">>
EventResume ==
    <<"{", "timestamp", ":", " ", "{t}", ",", " ", "event", ":", " ", "RESUME", "}", "\n">>
ErrorReply == <<"{", "error", ":", " ", "{GenericError}", "}", "\n">>

MonitorLines ==
    {Banner, ReturnOk, ReturnCompact, EventStop, EventResume, ErrorReply}

\* readline() at end of file
EOF == <<>>

Unspace(s) == SelectSeq(s, LAMBDA t : t \notin {" ", "\n"})

RECURSIVE IsMembers(_)
IsMembers(s) ==
    \/ Len(s) = 3 /\ s[2] = ":"
    \/ Len(s) > 4 /\ s[2] = ":" /\ s[4] = "," /\ IsMembers(SubSeq(s, 5, Len(s)))

RECURSIVE Members(_)
Members(s) ==
    IF Len(s) <= 3 THEN {<<s[1], s[3]>>}
    ELSE {<<s[1], s[3]>>} \cup Members(SubSeq(s, 5, Len(s)))

\* json.loads(text): ok is FALSE where Python raises JSONDecodeError
json_loads(text) ==
    LET t == Unspace(text)
        inner == SubSeq(t, 2, Len(t) - 1)
    IN  IF Len(t) >= 2 /\ t[1] = "{" /\ t[Len(t)] = "}" /\ IsMembers(inner)
        THEN [ok |-> TRUE, obj |-> Members(inner)]
        ELSE [ok |-> FALSE, obj |-> {}]

\* "event" in reply
HasKey(obj, k) == \E m \in obj : m[1] = k

\* {"return": {}}
EmptyReturn == {<<"return", "{}">>}

\* ------------------------------------------------------------ file system
Paths(base) == {<<base, "in">>, <<base, "out">>}
MonitorPaths == Paths("qemu-monitor")
SerialPaths == Paths("serial-pipe")

\* ------------------------------------------------------------------ state
\* What QEMU writes into a pipe is not visible to the harness before the
\* harness reads it: a pipe is modelled by the number of unread lines, and
\* the text of a line is drawn when it is read.
VARIABLES
    variant,         \* "serial": src/build.py, "stdout": src/uefi-test-runner/build.py
    pc,              \* position of run_qemu
    fs,              \* the named-pipe entries that exist on disk
    created,         \* the entries this run created with os.mkfifo
    screenshot,      \* content of screenshot.ppm, 0 when the file does not exist
    child,           \* the QEMU process: "unspawned", "running", "blocked", "exited"
    status,          \* the local variable status of run_qemu, <<>> while unset
    thread,          \* the echo_filtered_stdout thread: "none", "running", "done"
    pipes_open,      \* the with block holds the pipe ends open
    mon_avail,       \* unread lines in the monitor reply pipe
    mon_total,       \* lines QEMU has written to the monitor reply pipe
    monitor_input,   \* the commands run_qemu wrote to the monitor
    executed,        \* how many screendump commands QEMU has executed
    con_avail,       \* unread lines on the monitored console
    con_total,       \* lines QEMU has written to the monitored console
    acks,            \* how many "OK" lines run_qemu wrote to the child
    out_avail,       \* serial variant: unread lines of QEMU's stdout
    out_total,       \* serial variant: lines QEMU has written to its stdout
    line,            \* the local variable line / stripped of the loop
    printed,         \* what the last loop iteration printed, <<>> if nothing
    thread_printed,  \* what the last iteration of the thread printed
    reference_name,  \* the local variable reference_name
    reply,           \* the local variable reply (a parsed object)
    body_exc,        \* the exception that left the try body, "none" if none
    outcome,         \* how run_qemu ended: "none", "returned" or the exception raised
    hs_read,         \* history: the lines the handshake read
    hs,              \* history: "pending", "ok", "failed"
    since_cmd,       \* history: the monitor lines read since the last screendump
    discarded,       \* history: the events the reply loop skipped for it
    got_reply,       \* history: the reply loop of the last screendump has ended
    replies_read,    \* history: how many command replies have been read
    trig_log,        \* history: the steps taken for the current trigger
    trig_raw,        \* history: the raw console line of the current trigger
    cmp_result,      \* history: "none", "match", "mismatch", "missing"
    failed,          \* history: an assertion or an I/O error left the try body
    fixtures,        \* the reference files on disk: pairs <<name, content>>
    triggers,        \* history: how many trigger lines the loop has consumed
    ok_replies,      \* history: how many screendump replies were {"return": {}}
    sub_in,          \* stripping on its own: the input line
    sub_out,         \* stripping on its own: the results so far
    sub_pc           \* stripping on its own: how many times it was applied

harness_vars ==
    <<variant, pc, fs, created, screenshot, child, status, thread, pipes_open,
      mon_avail, mon_total, monitor_input, executed, con_avail, con_total,
      acks, out_avail, out_total, line, printed, thread_printed,
      reference_name, reply, body_exc, outcome, hs_read, hs, since_cmd,
      discarded, got_reply, replies_read, trig_log, trig_raw, cmp_result,
      failed, fixtures, triggers, ok_replies>>

sub_vars == <<sub_in, sub_out, sub_pc>>

vars == <<harness_vars, sub_vars>>

\* entries a previous run may have left behind
Leftovers == {{}, {<<"qemu-monitor", "out">>}, {<<"serial-pipe", "in">>}}

HarnessInit ==
    /\ variant \in {"serial", "stdout"}
    /\ pc = "build"
    /\ fs \in Leftovers
    /\ created = {}
    /\ screenshot = 0
    /\ child = "unspawned"
    /\ status = <<>>
    /\ thread = "none"
    /\ pipes_open = FALSE
    /\ mon_avail = 0
    /\ mon_total = 0
    /\ monitor_input = <<>>
    /\ executed = 0
    /\ con_avail = 0
    /\ con_total = 0
    /\ acks = 0
    /\ out_avail = 0
    /\ out_total = 0
    /\ line = <<>>
    /\ printed = <<>>
    /\ thread_printed = <<>>
    /\ reference_name = <<>>
    /\ reply = {}
    /\ body_exc = "none"
    /\ outcome = "none"
    /\ hs_read = <<>>
    /\ hs = "pending"
    /\ since_cmd = <<>>
    /\ discarded = <<>>
    /\ got_reply = FALSE
    /\ replies_read = 0
    /\ trig_log = <<>>
    /\ trig_raw = <<>>
    /\ cmp_result = "none"
    /\ failed = FALSE
    /\ fixtures = FixturesOnDisk
    /\ triggers = 0
    /\ ok_replies = 0

SubIdle == sub_in = <<>> /\ sub_out = <<>> /\ sub_pc = 0

Init == HarnessInit /\ SubIdle

\* ------------------------------------------------------- exits of run_qemu
\* an exception raised before the try statement leaves run_qemu at once
RaiseOutside(e) ==
    /\ outcome' = e
    /\ pc' = "done"

\* an exception raised in the try body: the with statement closes the pipe
\* ends, then the finally clause runs with the exception pending
\* leaving the with statement closes the pipe ends: what is unread in the
\* named pipes is lost (QEMU's stdout is not closed)
CloseWith ==
    /\ pipes_open' = FALSE
    /\ mon_avail' = 0
    /\ con_avail' = IF variant = "serial" THEN 0 ELSE con_avail

RaiseInBody(e) ==
    /\ body_exc' = e
    /\ failed' = TRUE
    /\ CloseWith
    /\ pc' = "wait"

\* the try body goes on
StayInBody == UNCHANGED <<body_exc, failed, pipes_open, mon_avail, con_avail>>

\* ------------------------------------------------------ reading and writing
\* readline() and iteration return the next unread line, return end of file
\* once QEMU has exited and nothing is unread, and block otherwise
Readable(avail, l) ==
    IF avail > 0 THEN l # EOF ELSE l = EOF /\ child = "exited"

Taken(avail) == IF avail > 0 THEN avail - 1 ELSE avail

\* the try body goes on after reading a line of the monitor
StayInBodyRead ==
    /\ UNCHANGED <<body_exc, failed, pipes_open, con_avail>>
    /\ mon_avail' = Taken(mon_avail)

\* print(..., file=pipe, flush=True) raises BrokenPipeError without a reader
CanWrite == child = "running"

\* qemu.wait() is called without a timeout
wait_timeout == <<>>

AllowedStatus == IF variant = "serial" THEN {0, 3} ELSE {0}

\* exit statuses of QEMU; a negative one is the signal that ended it
ExitCodes == {0, 3, -1}

\* ------------------------------------------------------- run_qemu: set-up
\* build(...) and ovmf_files(find_ovmf()): either raises before any pipe exists
Build(ok) ==
    /\ pc = "build"
    /\ IF ok THEN pc' = "mk_monitor" /\ outcome' = outcome
       ELSE RaiseOutside("CalledProcessError")
    /\ UNCHANGED <<variant, fixtures, triggers, ok_replies, fs, created, screenshot, child, status, thread,
                   pipes_open, mon_avail, mon_total, monitor_input, executed,
                   con_avail, con_total, acks, out_avail, out_total, line,
                   printed, thread_printed, reference_name, reply, body_exc,
                   hs_read, hs, since_cmd, discarded, got_reply,
                   replies_read, trig_log, trig_raw, cmp_result, failed, sub_vars>>

\* os.mkfifo(input_path); os.mkfifo(output_path): mkfifo raises
\* FileExistsError on an existing path
CreatePipe(base, next) ==
    LET input_path == <<base, "in">>
        output_path == <<base, "out">>
        made == IF input_path \in fs THEN {}
                ELSE IF output_path \in fs THEN {input_path}
                ELSE {input_path, output_path}
    IN  /\ fs' = fs \cup made
        /\ created' = created \cup made
        /\ IF Cardinality(made) = 2 THEN pc' = next /\ outcome' = outcome
           ELSE RaiseOutside("FileExistsError")

MonitorPipe ==
    /\ pc = "mk_monitor"
    /\ CreatePipe("qemu-monitor", IF variant = "serial" THEN "mk_serial" ELSE "popen")
    /\ UNCHANGED <<variant, fixtures, triggers, ok_replies, screenshot, child, status, thread, pipes_open,
                   mon_avail, mon_total, monitor_input, executed, con_avail,
                   con_total, acks, out_avail, out_total, line, printed,
                   thread_printed, reference_name, reply, body_exc, hs_read,
                   hs, since_cmd, discarded, got_reply, replies_read,
                   trig_log, trig_raw, cmp_result, failed, sub_vars>>

SerialPipe ==
    /\ pc = "mk_serial"
    /\ CreatePipe("serial-pipe", "popen")
    /\ UNCHANGED <<variant, fixtures, triggers, ok_replies, screenshot, child, status, thread, pipes_open,
                   mon_avail, mon_total, monitor_input, executed, con_avail,
                   con_total, acks, out_avail, out_total, line, printed,
                   thread_printed, reference_name, reply, body_exc, hs_read,
                   hs, since_cmd, discarded, got_reply, replies_read,
                   trig_log, trig_raw, cmp_result, failed, sub_vars>>

\* sp.Popen(cmd, ...) and, in the serial variant, thread.start()
Popen(ok) ==
    /\ pc = "popen"
    /\ IF ok
       THEN /\ child' = "running"
            /\ thread' = IF variant = "serial" THEN "running" ELSE "none"
            /\ pc' = "open"
            /\ outcome' = outcome
       ELSE /\ RaiseOutside("FileNotFoundError")
            /\ UNCHANGED <<child, thread>>
    /\ UNCHANGED <<variant, fixtures, triggers, ok_replies, fs, created, screenshot, status, pipes_open,
                   mon_avail, mon_total, monitor_input, executed, con_avail,
                   con_total, acks, out_avail, out_total, line, printed,
                   thread_printed, reference_name, reply, body_exc, hs_read,
                   hs, since_cmd, discarded, got_reply, replies_read,
                   trig_log, trig_raw, cmp_result, failed, sub_vars>>

\* the with statement: opening a FIFO end blocks until QEMU opens the other
OpenPipes ==
    /\ pc = "open"
    /\ child = "running"
    /\ pipes_open' = TRUE
    /\ pc' = "hs_banner"
    /\ UNCHANGED <<variant, fixtures, triggers, ok_replies, fs, created, screenshot, child, status, thread,
                   mon_avail, mon_total, monitor_input, executed, con_avail,
                   con_total, acks, out_avail, out_total, line, printed,
                   thread_printed, reference_name, reply, body_exc, outcome,
                   hs_read, hs, since_cmd, discarded, got_reply,
                   replies_read, trig_log, trig_raw, cmp_result, failed, sub_vars>>

\* mutant: a wrong banner is recorded and the handshake goes on
HandshakeBannerContinue(l) ==
    /\ pc = "hs_banner"
    /\ Readable(mon_avail, l)
    /\ hs_read' = <<l>>
    /\ hs' = IF startswith(l, QMP_PREFIX) THEN hs ELSE "failed"
    /\ pc' = "hs_caps"
    /\ StayInBodyRead
    /\ UNCHANGED <<variant, fixtures, triggers, ok_replies, fs, created, screenshot, child, status, thread,
                   mon_total, monitor_input, executed, con_total, acks,
                   out_avail, out_total, line, printed, thread_printed,
                   reference_name, reply, outcome, since_cmd, discarded,
                   got_reply, replies_read, trig_log, trig_raw, cmp_result, sub_vars>>

\* ------------------------------------------------------ run_qemu: handshake
\* assert monitor_output.readline().startswith('{"QMP":')
HandshakeBanner(l) ==
    /\ pc = "hs_banner"
    /\ Readable(mon_avail, l)
    /\ hs_read' = <<l>>
    /\ IF startswith(l, QMP_PREFIX)
       THEN pc' = "hs_caps" /\ hs' = hs /\ StayInBodyRead
       ELSE hs' = "failed" /\ RaiseInBody("AssertionError")
    /\ UNCHANGED <<variant, fixtures, triggers, ok_replies, fs, created, screenshot, child, status, thread,
                   mon_total, monitor_input, executed, con_total, acks,
                   out_avail, out_total, line, printed, thread_printed,
                   reference_name, reply, outcome, since_cmd, discarded,
                   got_reply, replies_read, trig_log, trig_raw, cmp_result, sub_vars>>

\* mutant: the command is written and its reply is never read
HandshakeCapabilitiesNoWait ==
    /\ pc = "hs_caps"
    /\ IF CanWrite
       THEN /\ monitor_input' = Append(monitor_input, "qmp_capabilities")
            /\ pc' = "monitor"
            /\ hs' = "ok"
            /\ StayInBody
       ELSE /\ hs' = "failed"
            /\ RaiseInBody("BrokenPipeError")
            /\ UNCHANGED monitor_input
    /\ UNCHANGED <<variant, fixtures, triggers, ok_replies, fs, created, screenshot, child, status, thread,
                   mon_total, executed, con_total, acks, out_avail,
                   out_total, line, printed, thread_printed, reference_name,
                   reply, outcome, hs_read, since_cmd, discarded, got_reply,
                   replies_read, trig_log, trig_raw, cmp_result, sub_vars>>

\* print('{"execute": "qmp_capabilities"}', file=monitor_input, flush=True)
HandshakeCapabilities ==
    /\ pc = "hs_caps"
    /\ IF CanWrite
       THEN /\ monitor_input' = Append(monitor_input, "qmp_capabilities")
            /\ pc' = "hs_ack"
            /\ hs' = hs
            /\ StayInBody
       ELSE /\ hs' = "failed"
            /\ RaiseInBody("BrokenPipeError")
            /\ UNCHANGED monitor_input
    /\ UNCHANGED <<variant, fixtures, triggers, ok_replies, fs, created, screenshot, child, status, thread,
                   mon_total, executed, con_total, acks, out_avail,
                   out_total, line, printed, thread_printed, reference_name,
                   reply, outcome, hs_read, since_cmd, discarded, got_reply,
                   replies_read, trig_log, trig_raw, cmp_result, sub_vars>>

\* mutant: the assertion on the reply is not made
HandshakeReplyUnchecked(l) ==
    /\ pc = "hs_ack"
    /\ Readable(mon_avail, l)
    /\ hs_read' = Append(hs_read, l)
    /\ replies_read' = IF l # EOF THEN replies_read + 1 ELSE replies_read
    /\ hs' = "ok"
    /\ pc' = "monitor"
    /\ StayInBodyRead
    /\ UNCHANGED <<variant, fixtures, triggers, ok_replies, fs, created, screenshot, child, status, thread,
                   mon_total, monitor_input, executed, con_total, acks,
                   out_avail, out_total, line, printed, thread_printed,
                   reference_name, reply, outcome, since_cmd, discarded,
                   got_reply, trig_log, trig_raw, cmp_result, sub_vars>>

\* assert monitor_output.readline() == '{"return": {}}\n'
HandshakeReply(l) ==
    /\ pc = "hs_ack"
    /\ Readable(mon_avail, l)
    /\ hs_read' = Append(hs_read, l)
    /\ replies_read' = IF l # EOF THEN replies_read + 1 ELSE replies_read
    /\ IF l = ReturnOk
       THEN hs' = "ok" /\ pc' = "monitor" /\ StayInBodyRead
       ELSE hs' = "failed" /\ RaiseInBody("AssertionError")
    /\ UNCHANGED <<variant, fixtures, triggers, ok_replies, fs, created, screenshot, child, status, thread,
                   mon_total, monitor_input, executed, con_total, acks,
                   out_avail, out_total, line, printed, thread_printed,
                   reference_name, reply, outcome, since_cmd, discarded,
                   got_reply, trig_log, trig_raw, cmp_result, sub_vars>>


\* ------------------------------------------------ run_qemu: monitoring loop
\* serial variant: line.rstrip(); stdout variant: ansi_escape.sub('', line.strip())
Cleaned(raw) ==
    IF variant = "serial" THEN rstrip(raw) ELSE ansi_escape_sub(strip(raw))

\* stdout variant: "if not stripped: continue"
Skipped(raw) == variant = "stdout" /\ Cleaned(raw) = <<>>

IsTrigger(raw) == ~Skipped(raw) /\ startswith(Cleaned(raw), PREFIX)

\* serial variant: print(line) for a trigger; stdout variant: print(stripped)
Echoed(raw) == IF variant = "serial" THEN IsTrigger(raw) ELSE ~Skipped(raw)

\* mutant: the loop tests a line and echoes nothing
MonitorLineSilent(raw) ==
    /\ pc = "monitor"
    /\ con_avail > 0
    /\ con_avail' = con_avail - 1
    /\ line' = Cleaned(raw)
    /\ printed' = <<>>
    /\ IF IsTrigger(raw)
       THEN /\ reference_name' = SliceFrom(Cleaned(raw), 12)
            /\ trig_raw' = raw
            /\ trig_log' = <<>>
            /\ cmp_result' = "none"
            /\ triggers' = triggers + 1
            /\ pc' = "send"
       ELSE UNCHANGED <<reference_name, trig_raw, trig_log, cmp_result,
                        triggers, pc>>
    /\ UNCHANGED <<variant, fixtures, ok_replies, fs, created, screenshot, child, status, thread,
                   pipes_open, mon_avail, mon_total, monitor_input, executed,
                   con_total, acks, out_avail, out_total, thread_printed,
                   reply, body_exc, outcome, hs_read, hs, since_cmd,
                   discarded, got_reply, replies_read, failed, sub_vars>>

\* one iteration of the for loop up to the screendump command
MonitorLine(raw) ==
    /\ pc = "monitor"
    /\ con_avail > 0
    /\ con_avail' = con_avail - 1
    /\ line' = Cleaned(raw)
    /\ printed' = IF Echoed(raw) THEN <<Cleaned(raw)>> ELSE <<>>
    /\ IF IsTrigger(raw)
       THEN /\ reference_name' = SliceFrom(Cleaned(raw), 12)
            /\ trig_raw' = raw
            /\ trig_log' = <<>>
            /\ cmp_result' = "none"
            /\ triggers' = triggers + 1
            /\ pc' = "send"
       ELSE UNCHANGED <<reference_name, trig_raw, trig_log, cmp_result,
                        triggers, pc>>
    /\ UNCHANGED <<variant, fixtures, ok_replies, fs, created, screenshot, child, status, thread,
                   pipes_open, mon_avail, mon_total, monitor_input, executed,
                   con_total, acks, out_avail, out_total, thread_printed,
                   reply, body_exc, outcome, hs_read, hs, since_cmd,
                   discarded, got_reply, replies_read, failed, sub_vars>>

\* the console reached end of file: the loop and the with statement end
MonitorEnd ==
    /\ pc = "monitor"
    /\ con_avail = 0
    /\ child = "exited"
    /\ CloseWith
    /\ pc' = "wait"
    /\ UNCHANGED <<variant, fixtures, triggers, ok_replies, fs, created, screenshot, child, status, thread,
                   mon_total, monitor_input, executed, con_total, acks,
                   out_avail, out_total, line, printed, thread_printed,
                   reference_name, reply, body_exc, outcome, hs_read, hs,
                   since_cmd, discarded, got_reply, replies_read, trig_log,
                   trig_raw, cmp_result, failed, sub_vars>>

\* print(monitor_command, file=monitor_input, flush=True)
SendScreendump ==
    /\ pc = "send"
    /\ IF CanWrite
       THEN /\ monitor_input' = Append(monitor_input, "screendump")
            /\ since_cmd' = <<>>
            /\ discarded' = <<>>
            /\ got_reply' = FALSE
            /\ trig_log' = <<"cmd">>
            /\ pc' = "read_reply"
            /\ StayInBody
       ELSE /\ RaiseInBody("BrokenPipeError")
            /\ UNCHANGED <<monitor_input, since_cmd, discarded, got_reply, trig_log>>
    /\ UNCHANGED <<variant, fixtures, triggers, ok_replies, fs, created, screenshot, child, status, thread,
                   mon_total, executed, con_total, acks, out_avail,
                   out_total, line, printed, thread_printed, reference_name,
                   reply, outcome, hs_read, hs, replies_read, trig_raw,
                   cmp_result, sub_vars>>

\* mutant: an empty line (the end of the stream) is read again
ReadReplyRetryAtEof(l) ==
    /\ pc = "read_reply"
    /\ Readable(mon_avail, l)
    /\ LET p == json_loads(l)
           isEvent == p.ok /\ HasKey(p.obj, "event")
           isReply == p.ok /\ ~HasKey(p.obj, "event")
       IN  /\ since_cmd' = IF l # EOF THEN Append(since_cmd, l) ELSE since_cmd
           /\ discarded' = IF isEvent THEN Append(discarded, l) ELSE discarded
           /\ reply' = IF p.ok THEN p.obj ELSE reply
           /\ got_reply' = isReply
           /\ replies_read' = IF isReply THEN replies_read + 1 ELSE replies_read
           /\ trig_log' = IF isReply THEN Append(trig_log, "reply") ELSE trig_log
           /\ ok_replies' = IF isReply /\ p.obj = EmptyReturn
                            THEN ok_replies + 1 ELSE ok_replies
           /\ IF l = EOF THEN pc' = pc /\ StayInBodyRead
              ELSE IF ~p.ok THEN RaiseInBody("JSONDecodeError")
              ELSE IF isEvent THEN pc' = pc /\ StayInBodyRead
              ELSE IF p.obj = EmptyReturn THEN pc' = "ack" /\ StayInBodyRead
              ELSE RaiseInBody("AssertionError")
    /\ UNCHANGED <<variant, fixtures, triggers, fs, created, screenshot, child, status, thread,
                   mon_total, monitor_input, executed, con_total, acks,
                   out_avail, out_total, line, printed, thread_printed,
                   reference_name, outcome, hs_read, hs, trig_raw, cmp_result, sub_vars>>

\* mutant: the reply is not compared with {"return": {}}
ReadReplyUnchecked(l) ==
    /\ pc = "read_reply"
    /\ Readable(mon_avail, l)
    /\ LET p == json_loads(l)
           isEvent == p.ok /\ HasKey(p.obj, "event")
           isReply == p.ok /\ ~HasKey(p.obj, "event")
       IN  /\ since_cmd' = IF l # EOF THEN Append(since_cmd, l) ELSE since_cmd
           /\ discarded' = IF isEvent THEN Append(discarded, l) ELSE discarded
           /\ reply' = IF p.ok THEN p.obj ELSE reply
           /\ got_reply' = isReply
           /\ replies_read' = IF isReply THEN replies_read + 1 ELSE replies_read
           /\ trig_log' = IF isReply THEN Append(trig_log, "reply") ELSE trig_log
           /\ ok_replies' = IF isReply /\ p.obj = EmptyReturn
                            THEN ok_replies + 1 ELSE ok_replies
           /\ IF ~p.ok THEN RaiseInBody("JSONDecodeError")
              ELSE IF isEvent THEN pc' = pc /\ StayInBodyRead
              ELSE pc' = "ack" /\ StayInBodyRead
    /\ UNCHANGED <<variant, fixtures, triggers, fs, created, screenshot, child, status, thread,
                   mon_total, monitor_input, executed, con_total, acks,
                   out_avail, out_total, line, printed, thread_printed,
                   reference_name, outcome, hs_read, hs, trig_raw, cmp_result, sub_vars>>

\* mutant: the first line read is taken as the reply, events included
ReadReplyNoLoop(l) ==
    /\ pc = "read_reply"
    /\ Readable(mon_avail, l)
    /\ LET p == json_loads(l)
       IN  /\ since_cmd' = IF l # EOF THEN Append(since_cmd, l) ELSE since_cmd
           /\ discarded' = discarded
           /\ reply' = IF p.ok THEN p.obj ELSE reply
           /\ got_reply' = p.ok
           /\ replies_read' = IF p.ok THEN replies_read + 1 ELSE replies_read
           /\ trig_log' = IF p.ok THEN Append(trig_log, "reply") ELSE trig_log
           /\ ok_replies' = IF p.ok /\ p.obj = EmptyReturn
                            THEN ok_replies + 1 ELSE ok_replies
           /\ IF ~p.ok THEN RaiseInBody("JSONDecodeError")
              ELSE IF p.obj = EmptyReturn THEN pc' = "ack" /\ StayInBodyRead
              ELSE RaiseInBody("AssertionError")
    /\ UNCHANGED <<variant, fixtures, triggers, fs, created, screenshot, child, status, thread,
                   mon_total, monitor_input, executed, con_total, acks,
                   out_avail, out_total, line, printed, thread_printed,
                   reference_name, outcome, hs_read, hs, trig_raw, cmp_result, sub_vars>>

\* reply = json.loads(monitor_output.readline()); while "event" in reply: ...;
\* assert reply == {"return": {}}
ReadReply(l) ==
    /\ pc = "read_reply"
    /\ Readable(mon_avail, l)
    /\ LET p == json_loads(l)
           isEvent == p.ok /\ HasKey(p.obj, "event")
           isReply == p.ok /\ ~HasKey(p.obj, "event")
       IN  /\ since_cmd' = IF l # EOF THEN Append(since_cmd, l) ELSE since_cmd
           /\ discarded' = IF isEvent THEN Append(discarded, l) ELSE discarded
           /\ reply' = IF p.ok THEN p.obj ELSE reply
           /\ got_reply' = isReply
           /\ replies_read' = IF isReply THEN replies_read + 1 ELSE replies_read
           /\ trig_log' = IF isReply THEN Append(trig_log, "reply") ELSE trig_log
           /\ ok_replies' = IF isReply /\ p.obj = EmptyReturn
                            THEN ok_replies + 1 ELSE ok_replies
           /\ IF ~p.ok THEN RaiseInBody("JSONDecodeError")
              ELSE IF isEvent THEN pc' = pc /\ StayInBodyRead
              ELSE IF p.obj = EmptyReturn THEN pc' = "ack" /\ StayInBodyRead
              ELSE RaiseInBody("AssertionError")
    /\ UNCHANGED <<variant, fixtures, triggers, fs, created, screenshot, child, status, thread,
                   mon_total, monitor_input, executed, con_total, acks,
                   out_avail, out_total, line, printed, thread_printed,
                   reference_name, outcome, hs_read, hs, trig_raw, cmp_result, sub_vars>>

\* mutant: no "OK" is written to the child
WriteAckSkipped ==
    /\ pc = "ack"
    /\ pc' = "compare"
    /\ StayInBody
    /\ UNCHANGED <<variant, acks, trig_log, fixtures, triggers, ok_replies, fs, created, screenshot, child, status, thread,
                   mon_total, monitor_input, executed, con_total, out_avail,
                   out_total, line, printed, thread_printed, reference_name,
                   reply, outcome, hs_read, hs, since_cmd, discarded,
                   got_reply, replies_read, trig_raw, cmp_result, sub_vars>>

\* mutant: the screenshot is deleted without being compared
WriteAckNoCompare ==
    /\ pc = "ack"
    /\ IF CanWrite
       THEN /\ acks' = acks + 1
            /\ trig_log' = Append(trig_log, "ack")
            /\ pc' = "remove"
            /\ StayInBody
       ELSE /\ RaiseInBody("BrokenPipeError")
            /\ UNCHANGED <<acks, trig_log>>
    /\ UNCHANGED <<variant, fixtures, triggers, ok_replies, fs, created, screenshot, child, status, thread,
                   mon_total, monitor_input, executed, con_total, out_avail,
                   out_total, line, printed, thread_printed, reference_name,
                   reply, outcome, hs_read, hs, since_cmd, discarded,
                   got_reply, replies_read, trig_raw, cmp_result, sub_vars>>

\* print('OK', file=serial_input or qemu.stdin, flush=True)
WriteAck ==
    /\ pc = "ack"
    /\ IF CanWrite
       THEN /\ acks' = acks + 1
            /\ trig_log' = Append(trig_log, "ack")
            /\ pc' = "compare"
            /\ StayInBody
       ELSE /\ RaiseInBody("BrokenPipeError")
            /\ UNCHANGED <<acks, trig_log>>
    /\ UNCHANGED <<variant, fixtures, triggers, ok_replies, fs, created, screenshot, child, status, thread,
                   mon_total, monitor_input, executed, con_total, out_avail,
                   out_total, line, printed, thread_printed, reference_name,
                   reply, outcome, hs_read, hs, since_cmd, discarded,
                   got_reply, replies_read, trig_raw, cmp_result, sub_vars>>

\* content of screenshots/<reference_name>.ppm, 0 when there is no such file
ReferenceFile(name) ==
    IF \E f \in fixtures : f[1] = name
    THEN (CHOOSE f \in fixtures : f[1] = name)[2]
    ELSE 0

\* mutant: a mismatch is recorded and the loop goes on
CompareContinue ==
    /\ pc = "compare"
    /\ LET reference_file == ReferenceFile(reference_name)
           missing == screenshot = 0 \/ reference_file = 0
           same == screenshot = reference_file
       IN  /\ cmp_result' = IF missing THEN "missing"
                            ELSE IF same THEN "match" ELSE "mismatch"
           /\ trig_log' = IF missing THEN trig_log ELSE Append(trig_log, "cmp")
           /\ IF missing THEN RaiseInBody("FileNotFoundError")
              ELSE IF same THEN pc' = "remove" /\ StayInBody
              ELSE /\ pc' = "remove"
                   /\ failed' = TRUE
                   /\ UNCHANGED <<body_exc, pipes_open, mon_avail, con_avail>>
    /\ UNCHANGED <<variant, fixtures, triggers, ok_replies, fs, created, screenshot, child, status, thread,
                   mon_total, monitor_input, executed, con_total, acks,
                   out_avail, out_total, line, printed, thread_printed,
                   reference_name, reply, outcome, hs_read, hs, since_cmd,
                   discarded, got_reply, replies_read, trig_raw, sub_vars>>

\* assert filecmp.cmp('screenshot.ppm', reference_file): filecmp.cmp raises
\* FileNotFoundError when either file is missing
Compare ==
    /\ pc = "compare"
    /\ LET reference_file == ReferenceFile(reference_name)
           missing == screenshot = 0 \/ reference_file = 0
           same == screenshot = reference_file
       IN  /\ cmp_result' = IF missing THEN "missing"
                            ELSE IF same THEN "match" ELSE "mismatch"
           /\ trig_log' = IF missing THEN trig_log ELSE Append(trig_log, "cmp")
           /\ IF missing THEN RaiseInBody("FileNotFoundError")
              ELSE IF same THEN pc' = "remove" /\ StayInBody
              ELSE RaiseInBody("AssertionError")
    /\ UNCHANGED <<variant, fixtures, triggers, ok_replies, fs, created, screenshot, child, status, thread,
                   mon_total, monitor_input, executed, con_total, acks,
                   out_avail, out_total, line, printed, thread_printed,
                   reference_name, reply, outcome, hs_read, hs, since_cmd,
                   discarded, got_reply, replies_read, trig_raw, sub_vars>>

\* mutant: the reference file is removed in place of the screenshot
RemoveReference ==
    /\ pc = "remove"
    /\ fixtures' = {f \in fixtures : f[1] # reference_name}
    /\ trig_log' = Append(trig_log, "rm")
    /\ pc' = "monitor"
    /\ UNCHANGED <<variant, screenshot, triggers, ok_replies, fs, created, child, status, thread, pipes_open,
                   mon_avail, mon_total, monitor_input, executed, con_avail,
                   con_total, acks, out_avail, out_total, line, printed,
                   thread_printed, reference_name, reply, body_exc, outcome,
                   hs_read, hs, since_cmd, discarded, got_reply,
                   replies_read, trig_raw, cmp_result, failed, sub_vars>>

\* os.remove('screenshot.ppm')
RemoveScreenshot ==
    /\ pc = "remove"
    /\ screenshot' = 0
    /\ trig_log' = Append(trig_log, "rm")
    /\ pc' = "monitor"
    /\ UNCHANGED <<variant, fixtures, triggers, ok_replies, fs, created, child, status, thread, pipes_open,
                   mon_avail, mon_total, monitor_input, executed, con_avail,
                   con_total, acks, out_avail, out_total, line, printed,
                   thread_printed, reference_name, reply, body_exc, outcome,
                   hs_read, hs, since_cmd, discarded, got_reply,
                   replies_read, trig_raw, cmp_result, failed, sub_vars>>

\* mutant: the pipes are removed without waiting for QEMU
FinallyNoWait(returncode) ==
    /\ pc = "wait"
    /\ child' = child
    /\ status' = <<returncode>>
    /\ fs' = fs \ (MonitorPaths \cup IF variant = "serial" THEN SerialPaths ELSE {})
    /\ IF returncode \notin AllowedStatus
       THEN outcome' = "CalledProcessError" /\ pc' = "done"
       ELSE IF body_exc # "none" THEN outcome' = body_exc /\ pc' = "done"
       ELSE IF variant = "serial" THEN pc' = "join" /\ outcome' = outcome
       ELSE outcome' = "returned" /\ pc' = "done"
    /\ UNCHANGED <<variant, fixtures, triggers, ok_replies, created, screenshot, thread, pipes_open,
                   mon_avail, mon_total, monitor_input, executed, con_avail,
                   con_total, acks, out_avail, out_total, line, printed,
                   thread_printed, reference_name, reply, body_exc, hs_read,
                   hs, since_cmd, discarded, got_reply, replies_read,
                   trig_log, trig_raw, cmp_result, failed, sub_vars>>

\* mutant: the finally clause drops the pending exception
FinallySwallow(returncode) ==
    /\ pc = "wait"
    /\ child = "exited"
    /\ child' = "exited"
    /\ status' = <<returncode>>
    /\ fs' = fs \ (MonitorPaths \cup IF variant = "serial" THEN SerialPaths ELSE {})
    /\ IF returncode \notin AllowedStatus
       THEN outcome' = "CalledProcessError" /\ pc' = "done"
       ELSE IF variant = "serial" THEN pc' = "join" /\ outcome' = outcome
       ELSE outcome' = "returned" /\ pc' = "done"
    /\ UNCHANGED <<variant, fixtures, triggers, ok_replies, created, screenshot, thread, pipes_open,
                   mon_avail, mon_total, monitor_input, executed, con_avail,
                   con_total, acks, out_avail, out_total, line, printed,
                   thread_printed, reference_name, reply, body_exc, hs_read,
                   hs, since_cmd, discarded, got_reply, replies_read,
                   trig_log, trig_raw, cmp_result, failed, sub_vars>>

\* ------------------------------------------------- run_qemu: finally clause
\* status = qemu.wait() blocks until QEMU has exited; the TimeoutExpired
\* handler kills QEMU and sets status to -1.  Then the pipes are removed
\* (remove_files() of each Pipe, or the two os.remove calls).  Then a status
\* outside the allow-list raises CalledProcessError, which replaces a pending
\* exception; otherwise the pending exception propagates; otherwise run_qemu
\* goes on.  returncode is what QEMU exited with: run_qemu first sees it here.
Finally(returncode) ==
    /\ pc = "wait"
    /\ IF wait_timeout = <<>> THEN child = "exited" ELSE TRUE
    /\ child' = "exited"
    /\ LET st == IF child = "exited" THEN returncode ELSE -1
       IN  /\ status' = <<st>>
           /\ fs' = fs \ (MonitorPaths \cup
                           IF variant = "serial" THEN SerialPaths ELSE {})
           /\ IF st \notin AllowedStatus
              THEN outcome' = "CalledProcessError" /\ pc' = "done"
              ELSE IF body_exc # "none" THEN outcome' = body_exc /\ pc' = "done"
              ELSE IF variant = "serial" THEN pc' = "join" /\ outcome' = outcome
              ELSE outcome' = "returned" /\ pc' = "done"
    /\ UNCHANGED <<variant, fixtures, triggers, ok_replies, created, screenshot, thread, pipes_open,
                   mon_avail, mon_total, monitor_input, executed, con_avail,
                   con_total, acks, out_avail, out_total, line, printed,
                   thread_printed, reference_name, reply, body_exc, hs_read,
                   hs, since_cmd, discarded, got_reply, replies_read,
                   trig_log, trig_raw, cmp_result, failed, sub_vars>>

\* thread.join()
Join ==
    /\ pc = "join"
    /\ thread = "done"
    /\ outcome' = "returned"
    /\ pc' = "done"
    /\ UNCHANGED <<variant, fixtures, triggers, ok_replies, fs, created, screenshot, child, status, thread,
                   pipes_open, mon_avail, mon_total, monitor_input, executed,
                   con_avail, con_total, acks, out_avail, out_total, line,
                   printed, thread_printed, reference_name, reply, body_exc,
                   hs_read, hs, since_cmd, discarded, got_reply,
                   replies_read, trig_log, trig_raw, cmp_result, failed, sub_vars>>

\* mutant: the thread reads the monitored console
EchoStdoutFromConsole(raw) ==
    /\ thread = "running"
    /\ con_avail > 0
    /\ con_avail' = con_avail - 1
    /\ thread_printed' = <<ansi_escape_sub(strip(raw))>>
    /\ UNCHANGED <<variant, fixtures, triggers, ok_replies, pc, fs, created, screenshot, child, status,
                   thread, pipes_open, mon_avail, mon_total, monitor_input,
                   executed, out_avail, con_total, acks, out_total, line,
                   printed, reference_name, reply, body_exc, outcome,
                   hs_read, hs, since_cmd, discarded, got_reply,
                   replies_read, trig_log, trig_raw, cmp_result, failed, sub_vars>>

\* ------------------------------------------------- echo_filtered_stdout
\* for line in stdout: print(ansi_escape.sub('', line.strip()))
EchoStdout(raw) ==
    /\ thread = "running"
    /\ out_avail > 0
    /\ out_avail' = out_avail - 1
    /\ thread_printed' = <<ansi_escape_sub(strip(raw))>>
    /\ UNCHANGED <<variant, fixtures, triggers, ok_replies, pc, fs, created, screenshot, child, status,
                   thread, pipes_open, mon_avail, mon_total, monitor_input,
                   executed, con_avail, con_total, acks, out_total, line,
                   printed, reference_name, reply, body_exc, outcome,
                   hs_read, hs, since_cmd, discarded, got_reply,
                   replies_read, trig_log, trig_raw, cmp_result, failed, sub_vars>>

EchoEnd ==
    /\ thread = "running"
    /\ out_avail = 0
    /\ child = "exited"
    /\ thread' = "done"
    /\ UNCHANGED <<variant, fixtures, triggers, ok_replies, pc, fs, created, screenshot, child, status,
                   pipes_open, mon_avail, mon_total, monitor_input, executed,
                   con_avail, con_total, acks, out_avail, out_total, line,
                   printed, thread_printed, reference_name, reply, body_exc,
                   outcome, hs_read, hs, since_cmd, discarded, got_reply,
                   replies_read, trig_log, trig_raw, cmp_result, failed, sub_vars>>

\* --------------------------------------------------------- QEMU, the child
Screendumps == Len(SelectSeq(monitor_input, LAMBDA c : c = "screendump"))

\* QEMU writes a line to the monitor reply pipe
QemuMonitorWrite ==
    /\ child = "running"
    /\ pipes_open
    /\ mon_total < MaxMon
    /\ mon_avail < PipeCap
    /\ mon_avail' = mon_avail + 1
    /\ mon_total' = mon_total + 1
    /\ UNCHANGED <<variant, fixtures, triggers, ok_replies, pc, fs, created, screenshot, child, status,
                   thread, pipes_open, monitor_input, executed, con_avail,
                   con_total, acks, out_avail, out_total, line, printed,
                   thread_printed, reference_name, reply, body_exc, outcome,
                   hs_read, hs, since_cmd, discarded, got_reply,
                   replies_read, trig_log, trig_raw, cmp_result, failed, sub_vars>>

\* QEMU executes a screendump command: it writes screenshot.ppm
QemuScreendump(content) ==
    /\ child = "running"
    /\ executed < Screendumps
    /\ executed' = executed + 1
    /\ screenshot' = content
    /\ UNCHANGED <<variant, fixtures, triggers, ok_replies, pc, fs, created, child, status, thread,
                   pipes_open, mon_avail, mon_total, monitor_input,
                   con_avail, con_total, acks, out_avail, out_total, line,
                   printed, thread_printed, reference_name, reply, body_exc,
                   outcome, hs_read, hs, since_cmd, discarded, got_reply,
                   replies_read, trig_log, trig_raw, cmp_result, failed, sub_vars>>

\* lines written before the harness reads the console or after it stopped
\* reading it are never read: they are left out
ReadingConsole ==
    IF variant = "serial"
    THEN {"hs_banner", "hs_caps", "hs_ack", "monitor", "send", "read_reply",
          "ack", "compare", "remove"}
    ELSE {"open", "hs_banner", "hs_caps", "hs_ack", "monitor", "send",
          "read_reply", "ack", "compare", "remove"}

QemuConsoleWrite ==
    /\ child = "running"
    /\ pc \in ReadingConsole
    /\ con_total < MaxConsole
    /\ con_avail < PipeCap
    /\ con_avail' = con_avail + 1
    /\ con_total' = con_total + 1
    /\ UNCHANGED <<variant, fixtures, triggers, ok_replies, pc, fs, created, screenshot, child, status,
                   thread, pipes_open, mon_avail, mon_total, monitor_input,
                   executed, acks, out_avail, out_total, line, printed,
                   thread_printed, reference_name, reply, body_exc, outcome,
                   hs_read, hs, since_cmd, discarded, got_reply,
                   replies_read, trig_log, trig_raw, cmp_result, failed, sub_vars>>

QemuStdoutWrite ==
    /\ child = "running"
    /\ variant = "serial"
    /\ out_total < MaxStdout
    /\ out_avail < PipeCap
    /\ out_avail' = out_avail + 1
    /\ out_total' = out_total + 1
    /\ UNCHANGED <<variant, fixtures, triggers, ok_replies, pc, fs, created, screenshot, child, status,
                   thread, pipes_open, mon_avail, mon_total, monitor_input,
                   executed, con_avail, con_total, acks, line, printed,
                   thread_printed, reference_name, reply, body_exc, outcome,
                   hs_read, hs, since_cmd, discarded, got_reply,
                   replies_read, trig_log, trig_raw, cmp_result, failed, sub_vars>>

\* stdout variant: once run_qemu has left the loop nobody reads QEMU's stdout;
\* a write of QEMU to the full pipe blocks and QEMU can no longer exit
QemuStdoutBlocked ==
    /\ variant = "stdout"
    /\ pc = "wait"
    /\ child = "running"
    /\ con_avail = PipeCap
    /\ child' = "blocked"
    /\ UNCHANGED <<variant, fixtures, triggers, ok_replies, pc, fs, created, screenshot, status, thread,
                   pipes_open, mon_avail, mon_total, monitor_input, executed,
                   con_avail, con_total, acks, out_avail, out_total, line,
                   printed, thread_printed, reference_name, reply, body_exc,
                   outcome, hs_read, hs, since_cmd, discarded, got_reply,
                   replies_read, trig_log, trig_raw, cmp_result, failed, sub_vars>>

QemuExit ==
    /\ child = "running"
    /\ child' = "exited"
    /\ UNCHANGED <<variant, fixtures, triggers, ok_replies, pc, fs, created, screenshot, status, thread,
                   pipes_open, mon_avail, mon_total, monitor_input, executed,
                   con_avail, con_total, acks, out_avail, out_total, line,
                   printed, thread_printed, reference_name, reply, body_exc,
                   outcome, hs_read, hs, since_cmd, discarded, got_reply,
                   replies_read, trig_log, trig_raw, cmp_result, failed, sub_vars>>

\* ---------------------------------------------------------- specification
HarnessNext ==
    \/ \E ok \in BOOLEAN : Build(ok)
    \/ MonitorPipe
    \/ SerialPipe
    \/ \E ok \in BOOLEAN : Popen(ok)
    \/ OpenPipes
    \/ \E l \in MonitorLines \cup {EOF} : HandshakeBanner(l)
    \/ HandshakeCapabilities
    \/ \E l \in MonitorLines \cup {EOF} : HandshakeReply(l)
    \/ \E raw \in ConsoleLines : MonitorLine(raw)
    \/ MonitorEnd
    \/ SendScreendump
    \/ \E l \in MonitorLines \cup {EOF} : ReadReply(l)
    \/ WriteAck
    \/ Compare
    \/ RemoveScreenshot
    \/ \E returncode \in ExitCodes : Finally(returncode)
    \/ Join
    \/ \E raw \in StdoutLines : EchoStdout(raw)
    \/ EchoEnd

QemuNext ==
    \/ QemuMonitorWrite
    \/ \E c \in Contents : QemuScreendump(c)
    \/ QemuConsoleWrite
    \/ QemuStdoutWrite
    \/ QemuStdoutBlocked
    \/ QemuExit

Next == HarnessNext \/ QemuNext

Spec == Init /\ [][Next]_vars

\* the Python interpreter keeps running the harness and its thread; nothing
\* obliges QEMU to write or to exit
FairSpec == Spec /\ WF_vars(HarnessNext)


\* ------------------------------------------------- a well-behaved QEMU
\* the events QEMU sends in one run, within what MaxMon lets it write
WellEvents == MaxMon - MaxConsole - 2

\* console lines of a guest whose screenshots have reference files
WellConsoleLines == {LineTrigger, LineLog, LineAnsiOnly}

\* what QEMU answers to a screendump command
WellReplyLines == {EventStop, EventResume, ReturnOk, ReturnCompact}

\* events read so far: the lines read that are neither the banner nor a reply
EventsRead == (mon_total - mon_avail) - 1 - replies_read

\* the line read by the reply loop is one of finitely many events or the
\* reply, and QEMU replies once it has written the screenshot
WellReadReply(l) ==
    /\ IF HasKey(json_loads(l).obj, "event") THEN EventsRead < WellEvents
       ELSE executed = Screendumps
    /\ ReadReply(l)

\* QEMU writes the banner, one reply for each command and its events
WellMonitorWrite ==
    /\ mon_total < 1 + Len(monitor_input) + WellEvents
    /\ QemuMonitorWrite

\* the screenshot QEMU writes is the one the guest asked to be compared
WellScreendump ==
    \E content \in Contents :
        /\ content = ReferenceFile(reference_name)
        /\ QemuScreendump(content)

\* QEMU exits after the handshake, when every line it wrote to the console
\* was consumed and every trigger was answered with "OK"
WellExit ==
    /\ hs = "ok"
    /\ con_avail = 0
    /\ acks = triggers
    /\ QemuExit

WellHarnessNext ==
    \/ \E ok \in BOOLEAN : Build(ok)
    \/ MonitorPipe
    \/ SerialPipe
    \/ \E ok \in BOOLEAN : Popen(ok)
    \/ OpenPipes
    \/ HandshakeBanner(Banner)
    \/ HandshakeCapabilities
    \/ HandshakeReply(ReturnOk)
    \/ \E raw \in WellConsoleLines : MonitorLine(raw)
    \/ MonitorEnd
    \/ SendScreendump
    \/ \E l \in WellReplyLines : WellReadReply(l)
    \/ WriteAck
    \/ Compare
    \/ RemoveScreenshot
    \/ \E returncode \in AllowedStatus : Finally(returncode)
    \/ Join
    \/ \E raw \in StdoutLines : EchoStdout(raw)
    \/ EchoEnd

WellQemuNext ==
    \/ WellMonitorWrite
    \/ WellScreendump
    \/ QemuConsoleWrite
    \/ QemuStdoutWrite
    \/ WellExit

WellNext == WellHarnessNext \/ WellQemuNext

\* the harness, its thread and QEMU all keep running
WellSpec == Init /\ [][WellNext]_vars /\ WF_vars(WellNext)


\* ------------------------------------------- the ANSI stripping on its own
AnsiAlphabet == {ESC, CSI, LBRACKET, 48, SP, 109}

SubInputs == UNION {[1..n -> AnsiAlphabet] : n \in 0..MaxLen}

SubInit ==
    /\ HarnessInit
    /\ variant = "stdout"
    /\ fs = {}
    /\ sub_in \in SubInputs
    /\ sub_out = <<>>
    /\ sub_pc = 0

\* ansi_escape.sub('', line)
StripOnce ==
    /\ sub_pc = 0
    /\ sub_out' = <<ansi_escape_sub(sub_in)>>
    /\ sub_pc' = 1
    /\ UNCHANGED <<harness_vars, sub_in>>

\* the same substitution applied to the stripped line
StripAgain ==
    /\ sub_pc = 1
    /\ sub_out' = Append(sub_out, ansi_escape_sub(sub_out[1]))
    /\ sub_pc' = 2
    /\ UNCHANGED <<harness_vars, sub_in>>

SubNext == StripOnce \/ StripAgain

SubSpec == SubInit /\ [][SubNext]_vars

\* ------------------------------------------------------------------ claims
Last(s) == s[Len(s)]
Front(s) == SubSeq(s, 1, Len(s) - 1)
IsPrefixOf(s, t) == Len(s) <= Len(t) /\ s = SubSeq(t, 1, Len(s))

\* an event message: an object containing the key "event"
IsEventLine(l) == json_loads(l).ok /\ HasKey(json_loads(l).obj, "event")

\* a capabilities banner: an object carrying the key "QMP"
IsBannerLine(l) == json_loads(l).ok /\ HasKey(json_loads(l).obj, "QMP")

AfterBody == {"wait", "join", "done"}

\* C1: once the reply loop of a screendump has ended, the lines read from
\* the monitor since the command are events followed by one non-event line;
\* the reply is that line, parsed; the discarded lines are the events before
\* it, in the order they were read; nothing is read after it.
C1_ReplyIsFirstNonEvent ==
    got_reply =>
        /\ since_cmd # <<>>
        /\ ~IsEventLine(Last(since_cmd))
        /\ \A i \in 1..(Len(since_cmd) - 1) : IsEventLine(since_cmd[i])
        /\ reply = json_loads(Last(since_cmd)).obj
        /\ discarded = Front(since_cmd)

C1_Witness ==
    /\ got_reply
    /\ discarded = <<EventStop, EventResume>>
    /\ reply = EmptyReturn
    /\ pc = "monitor"

\* C2: the handshake succeeds exactly when the first line read is a banner
\* and the line read after writing qmp_capabilities is the canonical reply;
\* any other first or second line (end of file included) fails the
\* handshake fatally; qmp_capabilities is written only after a banner was read.
C2_Handshake ==
    /\ hs = "ok" <=>
          (Len(hs_read) = 2 /\ IsBannerLine(hs_read[1]) /\ hs_read[2] = ReturnOk)
    /\ (Len(hs_read) >= 1 /\ ~IsBannerLine(hs_read[1])) =>
          (hs = "failed" /\ monitor_input = <<>>)
    /\ (Len(hs_read) = 2 /\ hs_read[2] # ReturnOk) => hs = "failed"
    /\ hs = "failed" => (failed /\ pc \in AfterBody /\ outcome # "returned")
    /\ monitor_input # <<>> => (hs_read # <<>> /\ IsBannerLine(hs_read[1]))

C2_Witness == hs = "ok" /\ pc = "monitor" /\ monitor_input = <<"qmp_capabilities">>

\* C3: at most one command is in flight, a command is written only when
\* every earlier command's reply has been read, and a screendump is written
\* only after the handshake succeeded.
InFlight == Len(monitor_input) - replies_read

C3_OneInFlight ==
    /\ InFlight \in {0, 1}
    /\ pc \in {"hs_caps", "send"} => InFlight = 0
    /\ Screendumps > 0 => hs = "ok"

C3_Witness == Screendumps = 2 /\ InFlight = 1 /\ pc = "read_reply"

\* C4 (as claimed): once the pipe entries have been created, however
\* run_qemu ends, none of them is left on disk.
AllPaths == MonitorPaths \cup IF variant = "serial" THEN SerialPaths ELSE {}

C4_NoPipeLeft == (outcome # "none" /\ created = AllPaths) => fs = {}

\* C5 (as claimed): once run_qemu waits for QEMU to exit, it eventually ends.
C5_DrainingEnds == (pc = "wait") ~> (pc = "done")

\* C6: run_qemu returns only if QEMU's exit status is in the allow-list and
\* nothing failed in the try body; a status outside the allow-list (-1
\* included) ends the run with CalledProcessError.
C6_SuccessOnlyIf ==
    /\ outcome = "returned" =>
          /\ status # <<>>
          /\ status[1] \in (IF variant = "serial" THEN {0, 3} ELSE {0})
          /\ ~failed
          /\ hs = "ok"
          /\ cmp_result \in {"none", "match"}
    /\ (pc = "done" /\ status # <<>>
          /\ status[1] \notin (IF variant = "serial" THEN {0, 3} ELSE {0})) =>
          outcome = "CalledProcessError"

C6_Witness ==
    /\ outcome = "returned"
    /\ variant = "serial"
    /\ status = <<3>>
    /\ cmp_result = "match"

\* C7 (as claimed): the identifier of a trigger is what follows the prefix
\* in the line the harness matched, without leading or trailing white
\* space; a line that does not begin with the prefix starts no trigger.
C7_TrimmedIdentifier ==
    /\ trig_raw # <<>> =>
          /\ startswith(Cleaned(trig_raw), PREFIX)
          /\ reference_name = strip(SliceFrom(Cleaned(trig_raw), 12))
    /\ pc = "send" => startswith(line, PREFIX)

\* C8 (as claimed): stripping a stripped line changes nothing.
C8_Idempotent == sub_pc = 2 => sub_out[2] = sub_out[1]

\* C9 (as claimed): once the comparison of a trigger has been made and the
\* harness has moved past the deletion, screenshot.ppm does not exist.
C9_ArtifactDeleted ==
    (cmp_result \in {"match", "mismatch"} /\ pc # "remove") => screenshot = 0

\* C10 (as claimed): command, reply, comparison, acknowledgement, deletion.
C10_CompareBeforeAck ==
    IsPrefixOf(trig_log, <<"cmd", "reply", "cmp", "ack", "rm">>)

\* C10 (amended): command, reply, acknowledgement, comparison, deletion; the
\* acknowledgement is written only after the reply was read and found to be
\* the empty-success object; monitoring resumes only after the deletion.
C10_AckBeforeCompare ==
    /\ IsPrefixOf(trig_log, <<"cmd", "reply", "ack", "cmp", "rm">>)
    /\ Len(trig_log) >= 3 => (got_reply /\ reply = EmptyReturn)
    /\ (pc = "monitor" /\ trig_log # <<>>) => Len(trig_log) = 5

C10_Witness ==
    /\ trig_log = <<"cmd", "reply", "ack", "cmp", "rm">>
    /\ pc = "monitor"
    /\ acks = 2

\* C11: the FIFOs of every channel exist when QEMU is spawned and as long as
\* it runs; they are missing only before their creation or once QEMU has
\* terminated.
C11_Lifecycle ==
    /\ (pc = "popen" \/ child = "running") => AllPaths \subseteq fs
    /\ (child # "unspawned" /\ ~(AllPaths \subseteq fs)) => child = "exited"

\* QEMU ran, terminated, and the FIFOs were removed afterwards
C11_Witness ==
    /\ created = AllPaths
    /\ child = "exited"
    /\ status # <<>>
    /\ fs = {}

\* C12: when QEMU exits without opening its ends of the FIFOs, the open of
\* run_qemu still ends and run_qemu reaches its end.
C12_OpenBounded == (pc = "open" /\ child = "exited") ~> (pc = "done")

\* C13: a QEMU that is still running when run_qemu waits for it is terminated
\* and the FIFOs are removed.
C13_HungChildKilled ==
    (pc = "wait" /\ child = "running") ~>
        (child = "exited" /\ AllPaths \cap fs = {})

main_report ==
    IF outcome = "CalledProcessError" THEN <<"exit code", status[1]>>
    ELSE <<"traceback", outcome>>

\* C15: when an assertion or an I/O error left the try body, the end of the
\* run shows that exception, whatever QEMU's exit status.
C15_FailureSurfaced ==
    (outcome # "none" /\ body_exc # "none") => main_report = <<"traceback", body_exc>>

\* C16: in src/build.py a step that reads QEMU's stdout is a step of the
\* thread and touches nothing of the monitoring loop; a step that reads the
\* monitor or the serial pipe, or writes a command or an "OK", is a step of
\* run_qemu and touches nothing of the thread.
C16_SingleReaderWriter ==
    [][variant = "serial" =>
        /\ out_avail' < out_avail =>
              /\ thread = "running"
              /\ UNCHANGED <<pc, line, printed, reply, mon_avail, con_avail,
                             monitor_input, acks>>
        /\ (\/ mon_avail' < mon_avail
            \/ con_avail' < con_avail
            \/ monitor_input' # monitor_input
            \/ acks' # acks) =>
              /\ pc \notin {"done", "join"}
              /\ UNCHANGED <<thread, thread_printed, out_avail>>
        /\ thread_printed' # thread_printed => out_avail' = out_avail - 1
        /\ line' # line => con_avail' = con_avail - 1]_vars

\* the thread and the monitoring loop have both read a line
C16_Witness ==
    /\ variant = "serial"
    /\ thread = "running"
    /\ thread_printed # <<>>
    /\ pc = "send"
    /\ line # <<>>

\* C17 as stated: a console line that is not empty after cleaning has been
\* echoed by the iteration that consumed it.
C17_EchoedAndTested == line # <<>> => printed = <<line>>

\* C17: in uefi-test-runner/build.py a line that is not empty after cleaning
\* is echoed and tested; in src/build.py a line of the serial pipe is tested
\* and is echoed exactly when it begins with the prefix.  A line is handled as
\* a trigger exactly when it begins with the prefix.
C17_EchoAndTest ==
    /\ variant = "stdout" => (line # <<>> => printed = <<line>>)
    /\ variant = "serial" =>
          printed = (IF startswith(line, PREFIX) THEN <<line>> ELSE <<>>)
    /\ startswith(line, PREFIX) => (triggers > 0 /\ Cleaned(trig_raw) = line)
    /\ (line # <<>> /\ ~startswith(line, PREFIX)) =>
          pc \in {"monitor"} \cup AfterBody

\* src/build.py consumed a serial line that is no trigger and echoed nothing,
\* while the thread echoed a line of stdout
C17_Witness ==
    /\ variant = "serial"
    /\ line = rstrip(LineLog)
    /\ line # <<>>
    /\ printed = <<>>
    /\ pc = "monitor"
    /\ thread_printed # <<>>

\* C18: the reference files are the same in every state of a run as before
\* it: none is removed, none is added, none changes content.
C18_FixtureImmutable == fixtures = FixturesOnDisk

\* a screenshot was compared with its reference file and then removed
C18_Witness ==
    /\ cmp_result = "match"
    /\ Last(trig_log) = "rm"
    /\ screenshot = 0
    /\ ReferenceFile(reference_name) # 0

\* C19: the screendump commands written are never more than the trigger lines
\* consumed, and one command has been written for each trigger line once its
\* command is past; the "OK" lines written are never more than the screendump
\* replies that were {"return": {}}, and an "OK" is about to be written only
\* when the reply of the current command was read and is {"return": {}}.
C19_Counts ==
    /\ Screendumps <= triggers
    /\ triggers <= Screendumps + 1
    /\ pc \in {"monitor", "read_reply", "ack", "compare", "remove"} =>
          Screendumps = triggers
    /\ pc = "send" => Screendumps = triggers - 1
    /\ acks <= ok_replies
    /\ ok_replies <= acks + 1
    /\ ok_replies <= Screendumps
    /\ pc = "ack" => (got_reply /\ reply = EmptyReturn /\ ok_replies = acks + 1)
    /\ pc \in {"compare", "remove", "monitor"} => acks = ok_replies

\* two triggers were handled, each with one command, one reply and one "OK"
C19_Witness ==
    /\ triggers = 2
    /\ Screendumps = 2
    /\ ok_replies = 2
    /\ acks = 2

\* C20: once an assertion or an I/O error has left the try body, run_qemu is
\* in or past its finally clause, and no later step writes a command or an
\* "OK" or consumes a console line.
C20_NoRetry ==
    /\ [](failed => pc \in AfterBody)
    /\ [][failed =>
            /\ monitor_input' = monitor_input
            /\ acks' = acks
            /\ con_avail' >= con_avail
            /\ UNCHANGED <<line, printed, triggers, reference_name, reply>>
            /\ pc' \in AfterBody]_vars

\* a mismatch ended the run while a console line was still unread
C20_Witness ==
    /\ failed
    /\ cmp_result = "mismatch"
    /\ con_avail > 0
    /\ pc = "done"

\* C21: the reply loop ends on every finite monitor stream.  While it runs,
\* all it has read are events, no more of them than QEMU wrote, and whenever
\* a line is unread or the stream has ended it can take a step that changes
\* the state (it neither blocks nor reads the same thing again).  A step of
\* the loop that stays in it has consumed one more event; a step that leaves
\* it goes on to the "OK" with the reply {"return": {}} or raises, and at the
\* end of the stream it raises JSONDecodeError.
C21_ReplyLoopEnds ==
    /\ [](pc = "read_reply" =>
            /\ Len(since_cmd) <= mon_total
            /\ \A i \in 1..Len(since_cmd) : IsEventLine(since_cmd[i])
            /\ (mon_avail > 0 \/ child = "exited") =>
                  ENABLED <<\E l \in MonitorLines \cup {EOF} : ReadReply(l)>>_vars)
    /\ [][pc = "read_reply" =>
            \/ /\ pc' = "read_reply"
               /\ \/ UNCHANGED <<since_cmd, discarded>> /\ mon_avail' >= mon_avail
                  \/ /\ mon_avail' = mon_avail - 1
                     /\ Len(discarded') = Len(discarded) + 1
                     /\ IsEventLine(Last(discarded'))
            \/ /\ pc' = "ack"
               /\ got_reply' /\ reply' = EmptyReturn
               /\ mon_avail' = mon_avail - 1
            \/ /\ pc' = "wait"
               /\ body_exc' \in {"JSONDecodeError", "AssertionError"}
               /\ mon_avail = 0 => body_exc' = "JSONDecodeError"]_vars

\* the stream ended inside the reply loop, after an event and before a reply
C21_Witness ==
    /\ since_cmd = <<EventStop>>
    /\ ~got_reply
    /\ body_exc = "JSONDecodeError"
    /\ child = "exited"
    /\ pc = "wait"

\* the run has ended with success: run_qemu returned, every trigger was
\* answered with one "OK", the thread has finished, no FIFO and no screenshot
\* is left
C22_Success ==
    /\ pc = "done"
    /\ outcome = "returned"
    /\ status # <<>> /\ status[1] \in AllowedStatus
    /\ acks = triggers
    /\ variant = "serial" => thread = "done"
    /\ AllPaths \cap fs = {}
    /\ screenshot = 0

\* C22: with a well-behaved QEMU, a run that has spawned QEMU eventually
\* ends with success.
C22_WellBehavedRun == (pc = "open") ~> C22_Success

\* a run with two triggers ended with success
C22_Witness == C22_Success /\ triggers = 2

\* C23: uefi-test-runner/build.py never waits for a QEMU that is blocked in
\* a write to its full stdout pipe.
C23_NoStdoutDeadlock ==
    ~(variant = "stdout" /\ pc = "wait" /\ child = "blocked")

\* C24: when the creation of a FIFO fails, the FIFOs this run created before
\* it are no longer on disk once the error has left run_qemu.
C24_CleanupOnCreationFailure ==
    outcome = "FileExistsError" => created \cap fs = {}

====
